---- MODULE Spec2Model ----
(***************************************************************************)
(* Session coordination and broadcast core of the full-app template:      *)
(* server.ts (the registry `sessions`, the websocket open / message /     *)
(* close handlers and the 60 s clean-up timer) and session.ts (class      *)
(* Session).  Both files are printed in full-app/README.md.               *)
(*                                                                         *)
(* JavaScript runs one task at a time, so every action below is one run   *)
(* of a handler or of a continuation between two suspension points.  A    *)
(* settled promise runs all its reactions, in registration order, before  *)
(* any other task: the end of a stream therefore includes the resumption  *)
(* of every addUserMessage call that awaited it.                           *)
(***************************************************************************)
EXTENDS Integers, Sequences, FiniteSets, TLC

\* ---------------------------------------------------------------- bounds
MaxObjs == 2        \* Session objects constructed in one run
MaxStream == 3      \* messages one engine stream yields
MaxLog == 3         \* messages kept per connection
MaxResets == 1      \* 'reset' requests made in one run
MaxBreaks == 1      \* websockets that start to throw in one run
TicksPerIdle == 2   \* clock ticks that make up the 60 s window
\* The workloads: connections opened and 'message' requests made in one run.
TurnConns == 1      \* Spec: one connection,
TurnCalls == 3      \*       three messages
FanConns == 2       \* SpecFanout: two connections,
FanCalls == 1       \*             one message
EvictConns == 3     \* SpecEvict: three connections,
EvictCalls == 1     \*            one message
PairConns == 2      \* SpecPair: two connections, one per session id,
PairCalls == 2      \*           two messages
WideConns == 1      \* SpecWide: one connection,
WideCalls == 1      \*           one message
MaxBlocks == 2      \* content blocks of one assistant message in SpecWide

Max(S) == CHOOSE x \in S : \A y \in S : y <= x

SessionIds == {"s1", "s2"}
Tokens == {"t1", "t2"}
NoToken == "null"
Conns == 1 .. Max({TurnConns, FanConns, EvictConns, PairConns, WideConns})
Objs == 1 .. MaxObjs
Calls == 1 .. Max({TurnCalls, FanCalls, EvictCalls, PairCalls, WideCalls})

VARIABLES
  sessions,      \* server.ts `sessions`: id -> Session object, 0 when absent
  nObjs,         \* Session objects constructed so far
  objId,         \* Session.id
  queryPromise,  \* Session.queryPromise: 0 is null, k the promise of call k
  subscribers,   \* Session.subscribers
  messageCount,  \* Session.messageCount
  sdkSessionId,  \* Session.sdkSessionId
  db,            \* table sessions of sessions.db: id -> row
  conn,          \* a websocket: "new", "open" or "closed"
  broken,        \* a websocket whose send throws
  inbox,         \* what an open websocket has received, in order
  nCalls,        \* 'message' requests handled so far
  nResets,       \* 'reset' requests handled so far
  call,          \* each addUserMessage call: where it stands
  timers,        \* pending setTimeout callbacks, oldest first
  afterReset,    \* history: reset() ran and no stream was started since
  load           \* the workload of the run; never changes

vars == <<sessions, nObjs, objId, queryPromise, subscribers, messageCount,
          sdkSessionId, db, conn, broken, inbox, nCalls, nResets, call, timers,
          afterReset, load>>

\* ws.data.sessionId: the id a connection was upgraded with (server.ts fetch).
ConnSid(c) == load.sid[c]

\* ---------------------------------------------------------------- values
NoRow == [present |-> FALSE, session_id |-> NoToken, message_count |-> 0]

\* INSERT OR IGNORE INTO sessions VALUES (id, null, now, now, 0)
ZeroRow == [present |-> TRUE, session_id |-> NoToken, message_count |-> 0]

\* An addUserMessage call: "unused", "waiting" at line 475 for promise
\* waitOn, "streaming" (its IIFE consumes the stream it started with option
\* resume) or "done" (returned).  History, kept while streaming: subs0, the
\* subscribers when the stream started, and seen, the messages it yielded
\* (in the workloads that keep it); detached, reset() ran on the session
\* since the stream started.
NoCall == [pc |-> "unused", obj |-> 0, waitOn |-> 0, resume |-> NoToken,
           subs0 |-> {}, seen |-> <<>>, detached |-> FALSE]
\* A call whose promise rejects.
RejectedCall == [NoCall EXCEPT !.pc = "rejected"]

DoneCall == [NoCall EXCEPT !.pc = "done"]

\* A message as a websocket receives it.  `content` is the text, the tool
\* name, the result or the error; `count` and `flag` are messageCount and
\* isActive of session_info, and `flag` is success of result.  `turn` is the
\* addUserMessage call whose stream produced it (0: none); it is not sent.
WsMsg(type, id, content, count, flag) ==
  [type |-> type, sessionId |-> id, content |-> content, count |-> count,
   flag |-> flag, turn |-> 0]

Stamp(evs, k) == [i \in 1 .. Len(evs) |-> [evs[i] EXCEPT !.turn = k]]

\* ------------------------------------------------- engine messages (raw)
\* What aiClient.queryStream yields.  `content` is message.message.content:
\* a string, an array of blocks, or absent.
NoContent == [kind |-> "none", text |-> "", blocks |-> <<>>]
Block(type, text, name) == [type |-> type, text |-> text, name |-> name]
Raw(type, subtype, token, content) ==
  [type |-> type, subtype |-> subtype, session_id |-> token, content |-> content]

InitMsg(t) == Raw("system", "init", t, NoContent)
AssistantText == Raw("assistant", "", NoToken, [kind |-> "string", text |-> "hi", blocks |-> <<>>])
AssistantBlocks ==
  Raw("assistant", "", NoToken,
      [kind |-> "array", text |-> "",
       blocks |-> <<Block("text", "a", ""), Block("thinking", "", ""),
                    Block("tool_use", "", "Read")>>])
ResultSuccess == Raw("result", "success", NoToken, [kind |-> "string", text |-> "done", blocks |-> <<>>])
ResultOther == Raw("result", "error_max_turns", NoToken, NoContent)
UserEcho == Raw("user", "", NoToken, [kind |-> "string", text |-> "hello", blocks |-> <<>>])
OtherTag == Raw("stream_event", "", NoToken, NoContent)

\* The messages the streams of Spec are drawn from.
StreamMsgs == {InitMsg(t) : t \in Tokens} \cup {AssistantText, ResultSuccess}

\* The content blocks and the arrays of them that SpecWide draws from.
Blocks == {Block("text", "a", ""), Block("thinking", "", ""), Block("tool_use", "", "Read")}
BlockLists == UNION {[1 .. n -> Blocks] : n \in 0 .. MaxBlocks}
ArrayMsg(bl) == Raw("assistant", "", NoToken, [kind |-> "array", text |-> "", blocks |-> bl])

\* The messages the streams of SpecWide are drawn from: every shape that
\* broadcastToSubscribers tells apart.
AllMsgs ==
  StreamMsgs \cup {ArrayMsg(bl) : bl \in BlockLists}
             \cup {AssistantBlocks, ResultOther, UserEcho, OtherTag}

\* A capture that takes the session_id of every message.
IsInitAlways(m) == TRUE

\* Line 492: the test for the turn-start message.
IsInit(m) == m.type = "system" /\ m.subtype = "init"

\* ------------------------------------------------------------ Session
\* A loop that broadcasts once, after its last iteration.
BlockMsgsLast(blocks, id) ==
  LET idx == {i \in 1 .. Len(blocks) : blocks[i].type \in {"text", "tool_use"}}
      b == blocks[Max(idx)]
  IN IF idx = {} THEN <<>>
     ELSE IF b.type = "text" THEN <<WsMsg("assistant_message", id, b.text, 0, FALSE)>>
     ELSE <<WsMsg("tool_use", id, b.name, 0, FALSE)>>

\* Session.broadcastToSubscribers, the loop over an array content: one
\* message per text and per tool_use block, in block order.
RECURSIVE BlockMsgs(_, _)
BlockMsgs(blocks, id) ==
  IF blocks = <<>> THEN <<>>
  ELSE LET b == Head(blocks)
           one == IF b.type = "text"
                    THEN <<WsMsg("assistant_message", id, b.text, 0, FALSE)>>
                  ELSE IF b.type = "tool_use"
                    THEN <<WsMsg("tool_use", id, b.name, 0, FALSE)>>
                  ELSE <<>>
       IN one \o BlockMsgs(Tail(blocks), id)

\* A translation that echoes every message as a user message.
TranslateAsUser(m, id) == <<WsMsg("user_message", id, m.content.text, 0, FALSE)>>

\* Session.broadcastToSubscribers: the messages one raw message is
\* broadcast as, in order.
Translate(m, id) ==
  IF m.type = "assistant" THEN
    IF m.content.kind = "string"
      THEN <<WsMsg("assistant_message", id, m.content.text, 0, FALSE)>>
    ELSE IF m.content.kind = "array" THEN BlockMsgs(m.content.blocks, id)
    ELSE <<>>
  ELSE IF m.type = "result" THEN
    IF m.subtype = "success"
      THEN <<WsMsg("result", id, m.content.text, 0, TRUE)>>
      ELSE <<WsMsg("result", id, m.subtype, 0, FALSE)>>
  ELSE IF m.type = "user"
    THEN <<WsMsg("user_message", id, m.content.text, 0, FALSE)>>
  ELSE <<>>

\* A session_info that always reports an idle session.
SessionInfoIdle(id, count, active) == WsMsg("session_info", id, "", count, FALSE)

\* Session.subscribe, lines 522-527: the session_info message.
SessionInfo(id, count, active) == WsMsg("session_info", id, "", count, active)

\* A handler that returns without a reply.
NotFoundInboxDropped(inb, c) == inb

\* websocket.message, lines 289-295: 'Session not found' goes to the sender
\* (nothing arrives when its send throws).
NotFoundInbox(inb, c) ==
  IF broken[c] THEN inb
  ELSE [inb EXCEPT ![c] = Append(@, WsMsg("error", "none", "Session not found",
                                          0, FALSE))]

\* Session.broadcastError
ErrorMsg(id, text) == <<WsMsg("error", id, text, 0, FALSE)>>

\* A broadcast over every websocket of the server.
BroadcastInboxAll(inb, subs, evs) ==
  [c \in Conns |-> IF ~broken[c] /\ conn[c] = "open" THEN inb[c] \o evs ELSE inb[c]]

\* A broadcast that stops after its first subscriber.
BroadcastInboxFirstOnly(inb, subs, evs) ==
  [c \in Conns |->
     IF c \in subs /\ ~broken[c] /\ conn[c] = "open" /\ (\A d \in subs : c <= d)
       THEN inb[c] \o evs ELSE inb[c]]

\* Session.broadcast, the try: ws.send appends to what an open websocket has
\* received; a closed websocket that does not throw drops the message.
BroadcastInbox(inb, subs, evs) ==
  [c \in Conns |->
     IF c \in subs /\ ~broken[c] /\ conn[c] = "open" THEN inb[c] \o evs ELSE inb[c]]

\* A catch that keeps the websocket.
BroadcastSubsKeep(subs, evs) == subs

\* Session.broadcast, the catch: a websocket whose send throws is deleted.
BroadcastSubs(subs, evs) ==
  IF evs = <<>> THEN subs ELSE {c \in subs : ~broken[c]}

Fits(inb) == \A c \in Conns : Len(inb[c]) <= MaxLog

\* An add that replaces the set.
SetAddOnly(S, c) == {c}

\* Session.subscribe, line 519: `subscribers` is a Set (line 453) and add
\* of a member leaves it as it is.
SetAdd(S, c) == S \cup {c}

\* A delete that removes nothing.
SetDeleteNone(S, c) == S

\* Session.unsubscribe, line 531: this.subscribers.delete(ws).
SetDelete(S, c) == S \ {c}

\* Session.unsubscribe has no return statement: a call evaluates to
\* undefined.
UnsubscribeReturn(S, c) == "undefined"

\* Session.hasSubscribers
HasSubscribers(S) == S # {}

\* A call that never waits.
MustWaitNever(o) == FALSE

\* Session.addUserMessage, line 474: a query promise is stored.
MustWait(o) == queryPromise[o] # 0

\* A count that runs backwards.
CountAfterDown(count, n) == count - n

\* Line 478, `this.messageCount++`, run by n calls one after the other.
CountAfter(count, n) == count + n

\* Options that never resume.
ResumeNever(token) == NoToken

\* Session.addUserMessage, `options` (lines 484-486): resume the stored SDK
\* session if there is one.
ResumeOption(token) == token

\* Session.reset (line 631)
ResetToken(token) == NoToken

\* Session.addUserMessage from line 478 to its suspension at line 515: the
\* call has started a stream with the token stored in the session.
StartedCall(o, token, subs) ==
  [NoCall EXCEPT !.pc = "streaming", !.obj = o, !.resume = ResumeOption(token),
                 !.subs0 = subs]

\* A promise whose reactions are lost.
WaitersNone(k) == {}

\* The calls suspended at `await this.queryPromise` (line 475) on promise k.
Waiters(k) == {w \in Calls : call[w].pc = "waiting" /\ call[w].waitOn = k}

\* An IIFE without its `finally`: the promise of call k stays stored.
PromiseAfterNoFinally(k, W) == IF W = {} THEN k ELSE Max(W)

\* `finally` (line 511): what queryPromise is once the IIFE of call k has
\* returned and the calls in W, which awaited it, have each stored their own.
PromiseAfter(k, W) == IF W = {} THEN 0 ELSE Max(W)

\* The IIFE of call k returns: `finally` nulls queryPromise, the promise
\* settles, call k returns, and every waiter runs lines 478-515 in turn:
\* messageCount++, a new stream is started with the token stored now, and
\* queryPromise becomes the waiter's promise.
Settle(k, token, subs) ==
  LET o == call[k].obj
      W == Waiters(k)
  IN /\ queryPromise' = [queryPromise EXCEPT ![o] = PromiseAfter(k, W)]
     /\ messageCount' = [messageCount EXCEPT ![o] = CountAfter(@, Cardinality(W))]
     /\ afterReset' = [afterReset EXCEPT ![o] = @ /\ W = {}]
     /\ call' = [j \in Calls |->
                   IF j = k THEN DoneCall
                   ELSE IF j \in W THEN StartedCall(o, token, subs)
                   ELSE call[j]]

\* An UPDATE that sets session_id and leaves message_count alone.
DbUpdateTokenOnly(rows, id, token, count) ==
  IF rows[id].present
    THEN [rows EXCEPT ![id] = [present |-> TRUE, session_id |-> token,
                               message_count |-> rows[id].message_count]]
    ELSE rows

\* UPDATE sessions SET session_id = ?, last_active_at = ?, message_count = ?
\* WHERE id = ?  (lines 497-500): only an existing row changes.
DbUpdate(rows, id, token, count) ==
  IF rows[id].present
    THEN [rows EXCEPT ![id] = [present |-> TRUE, session_id |-> token,
                               message_count |-> count]]
    ELSE rows

\* server.ts close, the setTimeout callback (lines 326-330): the test it
\* makes on the session it closed over, and what it does to the registry
\* under the id it closed over.
TimerDeletesInverted(o) == subscribers[o] # {}

TimerDeletes(o) == subscribers[o] = {}

SessionsAfterTimer(o, id) ==
  IF TimerDeletes(o) THEN [sessions EXCEPT ![id] = 0] ELSE sessions

\* ------------------------------------------------------------ state
InitWith(L) ==
  /\ sessions = [id \in SessionIds |-> 0]
  /\ nObjs = 0
  /\ objId = [o \in Objs |-> "none"]
  /\ queryPromise = [o \in Objs |-> 0]
  /\ subscribers = [o \in Objs |-> {}]
  /\ messageCount = [o \in Objs |-> 0]
  /\ sdkSessionId = [o \in Objs |-> NoToken]
  /\ db = [id \in SessionIds |-> NoRow]
  /\ conn = [c \in Conns |-> "new"]
  /\ broken = [c \in Conns |-> FALSE]
  /\ inbox = [c \in Conns |-> <<>>]
  /\ nCalls = 0
  /\ nResets = 0
  /\ call = [k \in Calls |-> NoCall]
  /\ timers = <<>>
  /\ afterReset = [o \in Objs |-> FALSE]
  /\ load = L

\* A workload: the connections opened, the 'message' requests made, whether
\* the history `seen` of the streams is kept, each connection's id, and
\* whether the connections open in any order or in the order of their
\* numbers, and the messages the engine streams are drawn from.
Load(conns, calls, trace) ==
  [conns |-> conns, calls |-> calls, trace |-> trace,
   sid |-> [c \in Conns |-> "s1"], anyOrder |-> FALSE, msgs |-> StreamMsgs]

Init == InitWith(Load(TurnConns, TurnCalls, FALSE))
InitFanout == InitWith([Load(FanConns, FanCalls, TRUE) EXCEPT !.anyOrder = TRUE])
InitEvict == InitWith(Load(EvictConns, EvictCalls, FALSE))
\* Connection 1 is of session s1, every other connection of session s2; the
\* two sessions are interchangeable, so connection 1 opens first.
InitPair ==
  InitWith([Load(PairConns, PairCalls, FALSE) EXCEPT
              !.sid = [c \in Conns |-> IF c = 1 THEN "s1" ELSE "s2"]])

InitWide == InitWith([Load(WideConns, WideCalls, TRUE) EXCEPT !.msgs = AllMsgs])

\* One Session, constructed as `new Session("s1", db, aiClient)` and not
\* registered, and the open websockets its methods are called with.
InitSession ==
  /\ sessions = [id \in SessionIds |-> 0]
  /\ nObjs = 1
  /\ objId = [o \in Objs |-> IF o = 1 THEN "s1" ELSE "none"]
  /\ queryPromise = [o \in Objs |-> 0]
  /\ subscribers = [o \in Objs |-> {}]
  /\ messageCount = [o \in Objs |-> 0]
  /\ sdkSessionId = [o \in Objs |-> NoToken]
  /\ db = [id \in SessionIds |-> IF id = "s1" THEN ZeroRow ELSE NoRow]
  /\ load = Load(FanConns, FanCalls, TRUE)
  /\ conn = [c \in Conns |-> IF c <= load.conns THEN "open" ELSE "new"]
  /\ broken = [c \in Conns |-> FALSE]
  /\ inbox = [c \in Conns |-> <<>>]
  /\ nCalls = 0
  /\ nResets = 0
  /\ call = [k \in Calls |-> NoCall]
  /\ timers = <<>>
  /\ afterReset = [o \in Objs |-> FALSE]

\* ------------------------------------------------------------ server.ts
\* A lookup that never finds the session.
FreshAlways(id) == TRUE

\* websocket.open, lines 273-274: no session is registered under the id.
Fresh(id) == sessions[id] = 0

\* websocket.open: get or create the session, then session.subscribe(ws).
\* Connections of one session are interchangeable: most workloads open them
\* in the order of their numbers.
Open(c) ==
  /\ conn[c] = "new"
  /\ c <= load.conns
  /\ load.anyOrder \/ \A d \in Conns : d < c => conn[d] # "new"
  /\ LET id == ConnSid(c)
         fresh == Fresh(id)
         o == IF fresh THEN nObjs + 1 ELSE sessions[id]
     IN /\ fresh => nObjs < MaxObjs
        /\ nObjs' = IF fresh THEN o ELSE nObjs
        /\ objId' = [objId EXCEPT ![o] = id]
        /\ db' = IF fresh /\ ~db[id].present THEN [db EXCEPT ![id] = ZeroRow] ELSE db
        /\ sessions' = [sessions EXCEPT ![id] = o]
        /\ subscribers' = [subscribers EXCEPT ![o] = SetAdd(@, c)]
        /\ inbox' = [inbox EXCEPT ![c] =
                       <<SessionInfo(id, messageCount[o], queryPromise[o] # 0)>>]
        /\ timers' = [i \in 1 .. Len(timers) |->
                        IF timers[i].obj = o THEN [timers[i] EXCEPT !.resub = TRUE]
                        ELSE timers[i]]
  /\ conn' = [conn EXCEPT ![c] = "open"]
  /\ UNCHANGED <<queryPromise, messageCount, sdkSessionId, broken, nCalls, nResets,
                 call, afterReset, load>>

\* Session.addUserMessage as call k on session o, up to its first
\* suspension: with a query promise stored the call waits for it (line 475);
\* otherwise it counts the message, starts the stream and stores its promise.
AddUserMessage(o, k) ==
  IF MustWait(o)
    THEN /\ call' = [call EXCEPT ![k] =
                       [NoCall EXCEPT !.pc = "waiting", !.obj = o,
                                      !.waitOn = queryPromise[o]]]
         /\ UNCHANGED <<messageCount, queryPromise, afterReset>>
    ELSE /\ call' = [call EXCEPT ![k] =
                       StartedCall(o, sdkSessionId[o], subscribers[o])]
         /\ messageCount' = [messageCount EXCEPT ![o] = CountAfter(@, 1)]
         /\ queryPromise' = [queryPromise EXCEPT ![o] = k]
         /\ afterReset' = [afterReset EXCEPT ![o] = FALSE]

\* websocket.message with {type: 'message'}.  Without a session under the
\* id the sender gets 'Session not found'; otherwise session.addUserMessage
\* runs up to its first suspension.
Message(c) ==
  /\ conn[c] = "open"
  /\ nCalls < load.calls
  /\ LET o == sessions[ConnSid(c)]
         k == nCalls + 1
     IN /\ nCalls' = k
        /\ IF o = 0
             THEN /\ inbox' = NotFoundInbox(inbox, c)
                  /\ Fits(inbox')
                  /\ UNCHANGED <<messageCount, queryPromise, afterReset, call>>
             ELSE /\ AddUserMessage(o, k)
                  /\ UNCHANGED inbox
  /\ UNCHANGED <<sessions, nObjs, objId, subscribers, sdkSessionId, db, conn, broken,
                 nResets, timers, load>>

\* websocket.message with {type: 'reset'}: session.reset(), then the
\* acknowledgement to the sender.
Reset(c) ==
  /\ conn[c] = "open"
  /\ sessions[ConnSid(c)] # 0
  /\ nResets < MaxResets
  /\ nResets' = nResets + 1
  /\ LET o == sessions[ConnSid(c)]
     IN /\ sdkSessionId' = [sdkSessionId EXCEPT ![o] = ResetToken(@)]
        /\ queryPromise' = [queryPromise EXCEPT ![o] = 0]
        /\ messageCount' = [messageCount EXCEPT ![o] = 0]
        /\ afterReset' = [afterReset EXCEPT ![o] = TRUE]
        /\ call' = [k \in Calls |->
                      IF call[k].pc = "streaming" /\ call[k].obj = o
                        THEN [call[k] EXCEPT !.detached = TRUE] ELSE call[k]]
  /\ inbox' = IF broken[c] THEN inbox
              ELSE [inbox EXCEPT ![c] =
                      Append(@, WsMsg("system", "none", "Conversation reset", 0, FALSE))]
  /\ Fits(inbox')
  /\ UNCHANGED <<sessions, nObjs, objId, subscribers, db, conn, broken, nCalls,
                 timers, load>>

\* websocket.close: unsubscribe from the session registered under the id,
\* and start the clean-up timer when that leaves it without subscribers.
Close(c) ==
  /\ conn[c] = "open"
  /\ conn' = [conn EXCEPT ![c] = "closed"]
  /\ inbox' = [inbox EXCEPT ![c] = <<>>]
  /\ LET id == ConnSid(c)
         o == sessions[id]
     IN IF o = 0
          THEN UNCHANGED <<subscribers, timers>>
          ELSE /\ subscribers' = [subscribers EXCEPT ![o] = SetDelete(@, c)]
               /\ timers' = IF ~HasSubscribers(subscribers'[o])
                              THEN Append(timers, [obj |-> o, sid |-> id,
                                                   left |-> TicksPerIdle,
                                                   resub |-> FALSE])
                              ELSE timers
  /\ UNCHANGED <<sessions, nObjs, objId, queryPromise, messageCount, sdkSessionId, db,
                 broken, nCalls, nResets, call, afterReset, load>>

\* The oldest timer is due: the callback of lines 325-331.  All timers have
\* the same delay, so they fire in the order they were started.
TimerFire ==
  /\ timers # <<>>
  /\ Head(timers).left = 0
  /\ LET o == Head(timers).obj
         id == Head(timers).sid
     IN /\ sessions' = SessionsAfterTimer(o, id)
        /\ subscribers' = IF TimerDeletes(o) THEN [subscribers EXCEPT ![o] = {}]
                          ELSE subscribers
  /\ timers' = Tail(timers)
  /\ UNCHANGED <<nObjs, objId, queryPromise, messageCount, sdkSessionId, db, conn,
                 broken, inbox, nCalls, nResets, call, afterReset, load>>

\* Time passes; a timer that is due fires before more time passes.
Tick ==
  /\ timers # <<>>
  /\ \A i \in 1 .. Len(timers) : timers[i].left > 0
  /\ timers' = [i \in 1 .. Len(timers) |-> [timers[i] EXCEPT !.left = @ - 1]]
  /\ UNCHANGED <<sessions, nObjs, objId, queryPromise, subscribers, messageCount,
                 sdkSessionId, db, conn, broken, inbox, nCalls, nResets, call,
                 afterReset, load>>

\* The peer of an open websocket goes away: its send throws from now on.
Break(c) ==
  /\ conn[c] = "open"
  /\ ~broken[c]
  /\ Cardinality({d \in Conns : broken[d]}) < MaxBreaks
  /\ broken' = [broken EXCEPT ![c] = TRUE]
  /\ UNCHANGED <<sessions, nObjs, objId, queryPromise, subscribers, messageCount,
                 sdkSessionId, db, conn, inbox, nCalls, nResets, call, timers,
                 afterReset, load>>

\* ------------------------------------------- Session.addUserMessage, IIFE
\* One iteration of the for-await loop of call k on message m: broadcast its
\* translation; on system/init store the token and update the row.
StreamYield(k, m) ==
  /\ call[k].pc = "streaming"
  /\ Len(call[k].seen) < MaxStream
  /\ LET o == call[k].obj
         evs == Stamp(Translate(m, objId[o]), k)
     IN /\ inbox' = BroadcastInbox(inbox, subscribers[o], evs)
        /\ Fits(inbox')
        /\ subscribers' = [subscribers EXCEPT ![o] = BroadcastSubs(@, evs)]
        /\ IF IsInit(m)
             THEN /\ sdkSessionId' = [sdkSessionId EXCEPT ![o] = m.session_id]
                  /\ db' = DbUpdate(db, objId[o], m.session_id, messageCount[o])
             ELSE UNCHANGED <<sdkSessionId, db>>
  /\ call' = [call EXCEPT ![k].seen = IF load.trace THEN Append(@, m) ELSE @]
  /\ UNCHANGED <<sessions, nObjs, objId, queryPromise, messageCount, conn, broken,
                 nCalls, nResets, timers, afterReset, load>>

\* The same iteration on system/init when db.run throws: the token is
\* already stored, the catch broadcasts the error and the IIFE returns.
InitDbThrows(k, t) ==
  /\ call[k].pc = "streaming"
  /\ Len(call[k].seen) < MaxStream
  /\ LET o == call[k].obj
         evs == Stamp(ErrorMsg(objId[o], "db error"), k)
     IN /\ sdkSessionId' = [sdkSessionId EXCEPT ![o] = t]
        /\ inbox' = BroadcastInbox(inbox, subscribers[o], evs)
        /\ Fits(inbox')
        /\ subscribers' = [subscribers EXCEPT ![o] = BroadcastSubs(@, evs)]
        /\ Settle(k, t, subscribers'[o])
  /\ UNCHANGED <<sessions, nObjs, objId, db, conn, broken, nCalls, nResets, timers,
                 load>>

\* The stream of call k is exhausted: the loop ends and the IIFE returns.
StreamEnd(k) ==
  /\ call[k].pc = "streaming"
  /\ Settle(k, sdkSessionId[call[k].obj], subscribers[call[k].obj])
  /\ UNCHANGED <<sessions, nObjs, objId, subscribers, sdkSessionId, db, conn, broken,
                 inbox, nCalls, nResets, timers, load>>

\* The stream of call k throws: the catch broadcasts the error, then the
\* IIFE returns.
StreamRaise(k) ==
  /\ call[k].pc = "streaming"
  /\ LET o == call[k].obj
         evs == Stamp(ErrorMsg(objId[o], "engine error"), k)
     IN /\ inbox' = BroadcastInbox(inbox, subscribers[o], evs)
        /\ Fits(inbox')
        /\ subscribers' = [subscribers EXCEPT ![o] = BroadcastSubs(@, evs)]
        /\ Settle(k, sdkSessionId[o], subscribers'[o])
  /\ UNCHANGED <<sessions, nObjs, objId, sdkSessionId, db, conn, broken, nCalls,
                 nResets, timers, load>>

Next ==
  \/ \E c \in Conns : Open(c)
  \/ \E c \in Conns : Message(c)
  \/ \E c \in Conns : Reset(c)
  \/ \E c \in Conns : Close(c)
  \/ \E c \in Conns : Break(c)
  \/ TimerFire
  \/ Tick
  \/ \E k \in Calls, m \in load.msgs : StreamYield(k, m)
  \/ \E k \in Calls, t \in Tokens : InitDbThrows(k, t)
  \/ \E k \in Calls : StreamEnd(k)
  \/ \E k \in Calls : StreamRaise(k)

\* session.subscribe(ws) called on the one Session of SpecSession, whether
\* or not ws is a subscriber already.
Subscribe(c) ==
  /\ conn[c] = "open"
  /\ subscribers' = [subscribers EXCEPT ![1] = SetAdd(@, c)]
  /\ inbox' = [inbox EXCEPT ![c] =
                 Append(@, SessionInfo(objId[1], messageCount[1], queryPromise[1] # 0))]
  /\ Fits(inbox')
  /\ UNCHANGED <<sessions, nObjs, objId, queryPromise, messageCount, sdkSessionId, db,
                 conn, broken, nCalls, nResets, call, timers, afterReset, load>>

\* session.addUserMessage(content) called on the one Session of SpecSession.
Submit ==
  /\ nCalls < load.calls
  /\ nCalls' = nCalls + 1
  /\ AddUserMessage(1, nCalls + 1)
  /\ UNCHANGED <<sessions, nObjs, objId, subscribers, sdkSessionId, db, conn, broken,
                 inbox, nResets, timers, load>>

\* The methods of one Session called directly, in any order.
NextSession ==
  \/ \E c \in Conns : Subscribe(c)
  \/ Submit
  \/ \E k \in Calls, m \in load.msgs : StreamYield(k, m)
  \/ \E k \in Calls, t \in Tokens : InitDbThrows(k, t)
  \/ \E k \in Calls : StreamEnd(k)
  \/ \E k \in Calls : StreamRaise(k)

\* One connection making three requests: the turns of one coordinator.
Spec == Init /\ [][Next]_vars
\* Two connections and one request: the fan-out of one turn.
SpecFanout == InitFanout /\ [][Next]_vars
\* Three connections, one after the other: the clean-up timers.
SpecEvict == InitEvict /\ [][Next]_vars
\* Two sessions with one connection each, and two requests.
SpecPair == InitPair /\ [][Next]_vars
\* subscribe and addUserMessage of one Session, called in any order.
SpecSession == InitSession /\ [][NextSession]_vars
\* One connection and one request whose stream yields messages of every shape.
SpecWide == InitWide /\ [][Next]_vars

\* ------------------------------------------------------------ claims
\* The streams of coordinator o that are started and not yet drained.
InFlight(o) == {k \in Calls : call[k].pc = "streaming" /\ call[k].obj = o}

\* C1: whatever the number of addUserMessage callers (and with no reset at
\* all), at most one stream of a coordinator is in progress at any time.
C1_OneQueryInFlight ==
  nResets = 0 => \A o \in Objs : Cardinality(InFlight(o)) <= 1

\* What connection c received from the stream of call k, in order.
TurnEvents(c, k) == SelectSeq(inbox[c], LAMBDA e : e.turn = k)

\* What the stream of call k has published so far, in order.
RECURSIVE PublishedOf(_, _, _)
PublishedOf(ms, id, k) ==
  IF ms = <<>> THEN <<>>
  ELSE Stamp(Translate(Head(ms), id), k) \o PublishedOf(Tail(ms), id, k)

Published(k) == PublishedOf(call[k].seen, objId[call[k].obj], k)

\* The open connections subscribed to the coordinator of call k ever since
\* its stream started.
Audience(k) ==
  {c \in call[k].subs0 \cap subscribers[call[k].obj] : conn[c] = "open"}

\* C2: during a turn, every connection subscribed since the turn started has
\* received exactly the events published so far, in publication order (so
\* any two of them have received the same sequence).
C2_SameSequence ==
  \A k \in Calls :
    call[k].pc = "streaming" =>
      \A c \in Audience(k) : TurnEvents(c, k) = Published(k)

\* Two connections subscribed before the submission have both received two
\* events of the turn.
C2_Witness ==
  \E k \in Calls :
    /\ call[k].pc = "streaming"
    /\ Cardinality(Audience(k)) = 2
    /\ Len(Published(k)) = 2
    /\ \A c \in Audience(k) : Len(TurnEvents(c, k)) = 2

\* Call k starts its engine stream in this step.
Starts(k) == call[k].pc # "streaming" /\ call'[k].pc = "streaming"

\* C3: a stream started on a coordinator whose reset() ran since its last
\* stream was started carries no resume option.
C3_FreshAfterReset ==
  [][\A k \in Calls :
       (Starts(k) /\ afterReset[call'[k].obj]) => call'[k].resume = NoToken]_vars

\* C4: a timer that fires never removes from the registry a coordinator
\* that has a subscriber at that moment.
C4_TimerSparesSubscribed ==
  [][TimerFire =>
       \A id \in SessionIds :
         (sessions[id] # 0 /\ subscribers[sessions[id]] # {}) =>
           sessions'[id] = sessions[id]]_vars

\* C5: when the timer of a coordinator to which nobody subscribed since the
\* timer was started fires, the coordinator has no subscribers and its id
\* no longer maps to it.
C5_IdleEvicted ==
  [][(TimerFire /\ ~Head(timers).resub) =>
       /\ subscribers'[Head(timers).obj] = {}
       /\ sessions'[Head(timers).sid] # Head(timers).obj]_vars

\* The only connection so far has closed, and the timer that started has
\* fired and removed the coordinator.
C5_Witness ==
  /\ conn[1] = "closed"
  /\ conn[2] = "new"
  /\ nObjs = 1
  /\ timers = <<>>
  /\ sessions["s1"] = 0

\* The error event of call k as coordinator o publishes it.
ErrorEvent(o, k) ==
  [type |-> "error", sessionId |-> objId[o], content |-> "engine error",
   count |-> 0, flag |-> FALSE, turn |-> k]

\* C6: when the stream of a turn raises, every subscriber whose send works
\* receives one error event with the failure message, the call returns, and
\* the coordinator is idle (no promise stored) unless calls were waiting for
\* this turn, which start their own streams; so the next message starts a
\* new stream at once.
C6_RaiseRecovers ==
  [][\A k \in Calls :
       StreamRaise(k) =>
         LET o == call[k].obj
         IN /\ \A c \in subscribers[o] :
                 (conn[c] = "open" /\ ~broken[c]) =>
                   inbox'[c] = Append(inbox[c], ErrorEvent(o, k))
            /\ call'[k].pc = "done"
            /\ Waiters(k) = {} => queryPromise'[o] = 0
            /\ \A w \in Waiters(k) : call'[w].pc = "streaming"]_vars

\* A connection received the error of one turn and then the result of a
\* later turn of the same coordinator, which has completed.
C6_Witness ==
  \E c \in Conns, i, j \in 1 .. MaxLog :
    /\ i < j
    /\ j <= Len(inbox[c])
    /\ inbox[c][i].type = "error"
    /\ inbox[c][i].content = "engine error"
    /\ inbox[c][j].type = "result"
    /\ inbox[c][j].turn > inbox[c][i].turn
    /\ call[inbox[c][j].turn].pc = "done"
    /\ \A o \in Objs : queryPromise[o] = 0

\* The stream of call k has yielded a result as its last message.
EndedWithResult(k) ==
  call[k].seen # <<>> /\ call[k].seen[Len(call[k].seen)].type = "result"

\* C7: when a turn has ended, with a result or by raising, and no call took
\* the coordinator over in the same step, the row of its id holds the
\* coordinator's token and messageCount.
C7_RecordCurrent ==
  [][\A k \in Calls :
       (/\ (StreamEnd(k) /\ EndedWithResult(k)) \/ StreamRaise(k)
        /\ Waiters(k) = {}) =>
         LET o == call[k].obj
         IN /\ db'[objId[o]].session_id = sdkSessionId'[o]
            /\ db'[objId[o]].message_count = messageCount'[o]]_vars

\* The first turn of a fresh session: the only request so far, no reset.
FirstTurn(k) ==
  /\ call[k].pc = "streaming"
  /\ nCalls = 1
  /\ nResets = 0
  /\ nObjs = 1

\* C8: a system/init message with session_id t makes the coordinator store
\* t and write the row of its id with token t and its messageCount, in the
\* same step; and when the first turn of a fresh session has yielded init(t),
\* an assistant text and a successful result, the row is {t, 1} and a
\* subscriber has received assistant_message, then result.
C8_InitPersists ==
  /\ [][\A k \in Calls, t \in Tokens :
          StreamYield(k, InitMsg(t)) =>
            LET o == call[k].obj
            IN /\ sdkSessionId'[o] = t
               /\ db'[objId[o]] = [present |-> TRUE, session_id |-> t,
                                   message_count |-> messageCount[o]]]_vars
  /\ [](\A k \in Calls, t \in Tokens :
          (FirstTurn(k) /\ call[k].seen = <<InitMsg(t), AssistantText, ResultSuccess>>) =>
            /\ db[objId[call[k].obj]] = [present |-> TRUE, session_id |-> t,
                                         message_count |-> 1]
            /\ \A c \in Audience(k) :
                 /\ Len(TurnEvents(c, k)) = 2
                 /\ TurnEvents(c, k)[1].type = "assistant_message"
                 /\ TurnEvents(c, k)[1].content = "hi"
                 /\ TurnEvents(c, k)[2].type = "result"
                 /\ TurnEvents(c, k)[2].flag)

\* The first turn of a fresh session has yielded init(t1), "hi" and a
\* successful result while a connection was subscribed.
C8_Witness ==
  /\ FirstTurn(1)
  /\ call[1].seen = <<InitMsg("t1"), AssistantText, ResultSuccess>>
  /\ Audience(1) # {}

\* C9: the token of a coordinator changes only in a step that processes a
\* system/init message of one of its streams (to that message's token) or in
\* a reset of it (to null).
C9_TokenFrame ==
  [][\A o \in Objs :
       sdkSessionId'[o] # sdkSessionId[o] =>
         \/ \E k \in Calls, t \in Tokens :
              /\ call[k].obj = o
              /\ StreamYield(k, InitMsg(t)) \/ InitDbThrows(k, t)
              /\ sdkSessionId'[o] = t
         \/ \E c \in Conns :
              /\ Reset(c)
              /\ sessions[ConnSid(c)] = o
              /\ sdkSessionId'[o] = NoToken]_vars

\* With no reset, a coordinator that has had two turns end still holds the
\* token of a turn-start signal.
C9_Witness ==
  /\ nResets = 0
  /\ Cardinality({k \in Calls : call[k].pc = "done"}) = 2
  /\ \E o \in Objs : sdkSessionId[o] \in Tokens /\ queryPromise[o] = 0

\* C10: a stream is started with the resume option equal to the token the
\* coordinator stores at that moment, and with none when it stores none.
C10_ResumeStored ==
  [][\A k \in Calls :
       Starts(k) => call'[k].resume = sdkSessionId'[call'[k].obj]]_vars

\* The first turn has ended after a turn-start signal with token t1, and
\* the second turn was started with resume t1.
C10_Witness ==
  /\ call[1].pc = "done"
  /\ call[2].pc = "streaming"
  /\ call[2].resume = "t1"
  /\ nResets = 0

\* C11: in every step other than a reset of it, the messageCount of a
\* coordinator does not decrease.
C11_CountMonotone ==
  [][\A o \in Objs :
       messageCount'[o] < messageCount[o] =>
         \E c \in Conns : Reset(c) /\ sessions[ConnSid(c)] = o]_vars

\* With no reset, a coordinator has counted two messages and was then
\* removed from the registry by its timer.
C11_Witness ==
  /\ nResets = 0
  /\ nObjs = 1
  /\ messageCount[1] = 2
  /\ sessions["s1"] = 0

\* C12: a call starts its engine stream only on a coordinator that is in
\* the registry (a call that waited while its coordinator was evicted starts
\* none).
C12_EvictedStartsNothing ==
  [][\A k \in Calls :
       Starts(k) => \E id \in SessionIds : sessions'[id] = call'[k].obj]_vars

\* C13: a 'message' request on a connection whose id has no coordinator
\* sends one error event to that connection (received when its send works)
\* and nothing to any other, starts no call, and leaves the registry, every
\* coordinator and the table as they were.
C13_NoSessionReply ==
  [][\A c \in Conns :
       (Message(c) /\ sessions[ConnSid(c)] = 0) =>
         /\ ~broken[c] =>
              inbox'[c] = Append(inbox[c],
                                 [type |-> "error", sessionId |-> "none",
                                  content |-> "Session not found", count |-> 0,
                                  flag |-> FALSE, turn |-> 0])
         /\ \A d \in Conns \ {c} : inbox'[d] = inbox[d]
         /\ call' = call
         /\ sessions' = sessions
         /\ nObjs' = nObjs
         /\ UNCHANGED <<queryPromise, messageCount, sdkSessionId, subscribers, db>>]_vars

\* An open connection whose id has no coordinator has received 'Session not
\* found' as its last message.
C13_Witness ==
  \E c \in Conns :
    /\ conn[c] = "open"
    /\ ~broken[c]
    /\ sessions[ConnSid(c)] = 0
    /\ inbox[c] # <<>>
    /\ inbox[c][Len(inbox[c])].type = "error"
    /\ inbox[c][Len(inbox[c])].content = "Session not found"

\* The IIFE of call k takes a step: an iteration of its loop, the end of
\* its stream, or a failure.
StepOf(k) ==
  \/ \E m \in load.msgs : StreamYield(k, m)
  \/ \E t \in Tokens : InitDbThrows(k, t)
  \/ StreamEnd(k)
  \/ StreamRaise(k)

\* C14: no step of a stream that a reset detached changes its coordinator's
\* token, messageCount or in-flight flag.
C14_DetachedIsNoOp ==
  [][\A k \in Calls :
       (call[k].detached /\ StepOf(k)) =>
         LET o == call[k].obj
         IN /\ sdkSessionId'[o] = sdkSessionId[o]
            /\ messageCount'[o] = messageCount[o]
            /\ (queryPromise'[o] # 0) = (queryPromise[o] # 0)]_vars

\* C15: when an event is broadcast while the send of a subscriber throws,
\* exactly the subscribers whose send throws leave the subscriber set, every
\* other open subscriber receives the event, the coordinator's token,
\* messageCount and query promise stay, and the call goes on streaming.
C15_SendFailureLocal ==
  [][\A k \in Calls, m \in {AssistantText, ResultSuccess} :
       (StreamYield(k, m) /\ \E b \in subscribers[call[k].obj] : broken[b]) =>
         LET o == call[k].obj
             ev == [type |-> IF m = AssistantText THEN "assistant_message" ELSE "result",
                    sessionId |-> objId[o],
                    content |-> m.content.text, count |-> 0,
                    flag |-> (m = ResultSuccess), turn |-> k]
         IN /\ subscribers'[o] = {c \in subscribers[o] : ~broken[c]}
            /\ \A c \in subscribers'[o] :
                 conn[c] = "open" => inbox'[c] = Append(inbox[c], ev)
            /\ sdkSessionId'[o] = sdkSessionId[o]
            /\ messageCount'[o] = messageCount[o]
            /\ queryPromise'[o] = queryPromise[o]
            /\ call'[k].pc = "streaming"]_vars

\* Of two connections subscribed when the turn started, one is broken and
\* was dropped by a broadcast; the other has received every event published
\* so far, more than the dropped one.
C15_Witness ==
  \E k \in Calls, b, c \in Conns :
    /\ call[k].pc = "streaming"
    /\ {b, c} \subseteq call[k].subs0
    /\ broken[b] /\ conn[b] = "open" /\ b \notin subscribers[call[k].obj]
    /\ c \in Audience(k)
    /\ Published(k) # <<>>
    /\ TurnEvents(c, k) = Published(k)
    /\ Len(TurnEvents(b, k)) < Len(Published(k))

\* C16: opening a connection adds it to the subscriber set of the
\* coordinator of its id and makes it receive exactly one session_info with
\* that id, the coordinator's messageCount and whether a query promise is
\* stored; no other connection receives anything.
C16_SubscribeInfo ==
  [][\A c \in Conns :
       Open(c) =>
         LET o == sessions'[ConnSid(c)]
         IN /\ subscribers'[o] = subscribers[o] \cup {c}
            /\ inbox'[c] = <<[type |-> "session_info", sessionId |-> ConnSid(c),
                              content |-> "", count |-> messageCount'[o],
                              flag |-> (queryPromise'[o] # 0), turn |-> 0]>>
            /\ \A d \in Conns \ {c} : inbox'[d] = inbox[d]]_vars

\* A connection that opened during the first turn holds one session_info
\* with messageCount 1 and isActive true, while another is subscribed.
C16_Witness ==
  \E c, d \in Conns :
    /\ c # d
    /\ {c, d} \subseteq subscribers[1]
    /\ inbox[c] = <<[type |-> "session_info", sessionId |-> "s1", content |-> "",
                     count |-> 1, flag |-> TRUE, turn |-> 0]>>

\* C18: a timer removes a coordinator from the registry only when no
\* later disconnect emptied it less than the idle window ago (a later timer
\* of the same coordinator that is not yet due was started by one).
C18_FullIdleWindow ==
  [][(/\ TimerFire
      /\ sessions[Head(timers).sid] = Head(timers).obj
      /\ sessions'[Head(timers).sid] = 0) =>
       \A j \in 2 .. Len(timers) :
         timers[j].obj = Head(timers).obj => timers[j].left = 0]_vars

\* C20: while no connection has closed or lost its peer, any two open
\* connections of one id, whichever opened first, are subscribers of the
\* one coordinator ever constructed for that id.
C20_OneCoordinator ==
  \A c, d \in Conns :
    (/\ c # d
     /\ conn[c] = "open" /\ conn[d] = "open"
     /\ ConnSid(c) = ConnSid(d)
     /\ \A e \in Conns : conn[e] # "closed" /\ ~broken[e]) =>
      /\ Cardinality({o \in Objs : objId[o] = ConnSid(c)}) = 1
      /\ sessions[ConnSid(c)] # 0
      /\ {c, d} \subseteq subscribers[sessions[ConnSid(c)]]

\* Connection 2 made the first contact and sent a message; connection 1
\* opened next and both are subscribers of the one coordinator.
C20_Witness ==
  /\ nObjs = 1
  /\ subscribers[1] = {1, 2}
  /\ conn[1] = "open" /\ conn[2] = "open"
  /\ \A e \in Conns : ~broken[e]
  /\ inbox[1] = <<[type |-> "session_info", sessionId |-> "s1", content |-> "",
                   count |-> 1, flag |-> TRUE, turn |-> 0]>>
  /\ Len(inbox[2]) = 1

\* C17: subscribing a connection that is a subscriber already leaves the
\* subscriber set as it was; and, subscriptions being repeated at will, every
\* connection subscribed since a turn started has received each event
\* published so far exactly once, in order.
C17_SubscribeTwice ==
  /\ [][\A c \in Conns :
          (Subscribe(c) /\ c \in subscribers[1]) => subscribers' = subscribers]_vars
  /\ [](\A k \in Calls :
          call[k].pc = "streaming" =>
            \A c \in Audience(k) : TurnEvents(c, k) = Published(k))

\* A connection subscribed twice before the turn (it holds two
\* session_info messages) and then received the one event published, once.
C17_Witness ==
  \E c \in Conns :
    /\ call[1].pc = "streaming"
    /\ c \in Audience(1)
    /\ Len(Published(1)) = 1
    /\ Len(inbox[c]) = 3
    /\ inbox[c][1].type = "session_info"
    /\ inbox[c][2].type = "session_info"
    /\ inbox[c][3].turn = 1

\* The stream of call k fails: the engine throws, or db.run does.
Fails(k) == StreamRaise(k) \/ \E t \in Tokens : InitDbThrows(k, t)

\* C19: when the stream of a call fails, the call returns normally; the
\* registry, every other Session, the rows of the other ids, the calls of
\* other Sessions and the connections not subscribed to the failing Session
\* are left as they were.
C19_FailureContained ==
  [][\A k \in Calls :
       Fails(k) =>
         LET o == call[k].obj
         IN /\ call'[k].pc = "done"
            /\ sessions' = sessions
            /\ nObjs' = nObjs
            /\ \A p \in Objs \ {o} :
                 /\ subscribers'[p] = subscribers[p]
                 /\ queryPromise'[p] = queryPromise[p]
                 /\ messageCount'[p] = messageCount[p]
                 /\ sdkSessionId'[p] = sdkSessionId[p]
            /\ \A id \in SessionIds \ {objId[o]} : db'[id] = db[id]
            /\ \A j \in Calls : call[j].obj # o => call'[j] = call[j]
            /\ \A c \in Conns : c \notin subscribers[o] => inbox'[c] = inbox[c]]_vars

\* The connection of session s1 has received the error of a failed turn
\* while the turn of session s2 goes on.
C19_Witness ==
  \E k \in Calls :
    /\ call[k].pc = "streaming"
    /\ objId[call[k].obj] = "s2"
    /\ messageCount[call[k].obj] = 1
    /\ conn[1] = "open"
    /\ inbox[1] # <<>>
    /\ inbox[1][Len(inbox[1])].type = "error"
    /\ inbox[1][Len(inbox[1])].content \in {"engine error", "db error"}
    /\ call[inbox[1][Len(inbox[1])].turn].pc = "done"

\* C21 as stated: closing a connection removes it from the subscriber set
\* of its coordinator, and the unsubscribe call returns true exactly when
\* the set is empty afterwards and false otherwise.
C21_ReturnsEmptiness ==
  [][\A c \in Conns :
       (Close(c) /\ sessions[ConnSid(c)] # 0) =>
         LET o == sessions[ConnSid(c)]
         IN /\ subscribers'[o] = subscribers[o] \ {c}
            /\ UnsubscribeReturn(subscribers[o], c) =
                 IF subscribers'[o] = {} THEN "true" ELSE "false"]_vars

\* C21 as amended: closing a connection removes it from the subscriber set
\* of its coordinator; the unsubscribe call returns nothing, and the
\* hasSubscribers() test made right after it starts a clean-up timer exactly
\* when the set is empty afterwards.
C21_UnsubscribeThenAsk ==
  [][\A c \in Conns :
       (Close(c) /\ sessions[ConnSid(c)] # 0) =>
         LET o == sessions[ConnSid(c)]
         IN /\ subscribers'[o] = subscribers[o] \ {c}
            /\ UnsubscribeReturn(subscribers[o], c) = "undefined"
            /\ IF subscribers'[o] = {}
                 THEN /\ Len(timers') = Len(timers) + 1
                      /\ timers'[Len(timers')].obj = o
                 ELSE timers' = timers]_vars

\* One connection has closed while another stayed subscribed: no timer was
\* started.
C21_Witness ==
  \E c, d \in Conns :
    /\ conn[c] = "closed"
    /\ conn[d] = "open"
    /\ nObjs = 1
    /\ subscribers[1] = {d}
    /\ timers = <<>>

\* C22: an assistant message whose content is an array of blocks makes every
\* subscriber whose send works receive one separate event per text block
\* (assistant_message with its text) and per tool_use block (tool_use with
\* its name), in block order, and nothing for any other block.
C22_BlockEvents ==
  [][\A k \in Calls, bl \in BlockLists \cup {AssistantBlocks.content.blocks} :
       StreamYield(k, ArrayMsg(bl)) =>
         LET o == call[k].obj
             kept == SelectSeq(bl, LAMBDA b : b.type \in {"text", "tool_use"})
             evs == [i \in 1 .. Len(kept) |->
                       [type |-> IF kept[i].type = "text" THEN "assistant_message"
                                 ELSE "tool_use",
                        sessionId |-> objId[o],
                        content |-> IF kept[i].type = "text" THEN kept[i].text
                                    ELSE kept[i].name,
                        count |-> 0, flag |-> FALSE, turn |-> k]]
         IN \A c \in subscribers[o] :
              (conn[c] = "open" /\ ~broken[c]) => inbox'[c] = inbox[c] \o evs]_vars

\* The stream yielded the blocks text, thinking, tool_use: the connection
\* holds its session_info, then assistant_message "a", then tool_use "Read".
C22_Witness ==
  \E c \in Conns :
    /\ call[1].seen = <<AssistantBlocks>>
    /\ Len(inbox[c]) = 3
    /\ inbox[c][2].type = "assistant_message" /\ inbox[c][2].content = "a"
    /\ inbox[c][3].type = "tool_use" /\ inbox[c][3].content = "Read"

\* The messages broadcastToSubscribers has no branch for.
Opaque == {OtherTag} \cup {InitMsg(t) : t \in Tokens}

\* C23: a message of no translated type (system/init included) is sent to
\* nobody, removes no subscriber and leaves the call streaming with its
\* promise stored; and an assistant text that follows it in the stream is
\* the last event of the turn that the turn's audience has received.
C23_OpaqueIgnored ==
  /\ [][\A k \in Calls, m \in Opaque :
          StreamYield(k, m) =>
            /\ inbox' = inbox
            /\ subscribers' = subscribers
            /\ queryPromise' = queryPromise
            /\ call'[k].pc = "streaming"]_vars
  /\ [](\A k \in Calls :
          (/\ call[k].pc = "streaming"
           /\ Len(call[k].seen) >= 2
           /\ call[k].seen[Len(call[k].seen) - 1] \in Opaque
           /\ call[k].seen[Len(call[k].seen)] = AssistantText) =>
            \A c \in Audience(k) :
              /\ TurnEvents(c, k) # <<>>
              /\ TurnEvents(c, k)[Len(TurnEvents(c, k))].type = "assistant_message"
              /\ TurnEvents(c, k)[Len(TurnEvents(c, k))].content = "hi")

\* The stream yielded a message of an unknown type and then an assistant
\* text: the subscriber has received one event of the turn.
C23_Witness ==
  \E c \in Conns :
    /\ call[1].pc = "streaming"
    /\ call[1].seen = <<OtherTag, AssistantText>>
    /\ c \in Audience(1)
    /\ Len(TurnEvents(c, 1)) = 1

\* C24: a call that waited starts its stream in the step in which the call
\* it waited for returns; and with two calls and no reset, no connection
\* receives an event of the first turn after an event of the second.
C24_WaiterAfterDrain ==
  /\ [][\A w \in Calls :
          (Starts(w) /\ call[w].pc = "waiting") =>
            /\ call[call[w].waitOn].pc = "streaming"
            /\ call'[call[w].waitOn].pc = "done"]_vars
  /\ []((nResets = 0 /\ nCalls <= 2) =>
          \A c \in Conns : \A i, j \in 1 .. Len(inbox[c]) :
            (i < j /\ inbox[c][i].turn = 2) => inbox[c][j].turn # 1)

\* With no reset, the second call waited for the first; the connection
\* holds an event of the first turn and then an event of the second.
C24_Witness ==
  \E c \in Conns :
    /\ nResets = 0
    /\ nCalls = 2
    /\ call[1].pc = "done"
    /\ call[2].pc = "streaming"
    /\ messageCount[1] = 2
    /\ Len(inbox[c]) = 3
    /\ inbox[c][2].turn = 1
    /\ inbox[c][3].turn = 2

\* Every started stream eventually ends or fails.
StreamsTerminate ==
  \A k \in Calls : WF_vars(StreamEnd(k) \/ StreamRaise(k))

\* The turns of one coordinator under streams that terminate.
SpecLive == Init /\ [][Next]_vars /\ StreamsTerminate

\* C25: when every stream terminates, every call that waits or streams
\* eventually returns; and a coordinator none of whose streams is running
\* has no query promise stored.
C25_CallsResolve ==
  /\ \A k \in Calls : (call[k].pc \in {"waiting", "streaming"}) ~> (call[k].pc = "done")
  /\ [](\A o \in Objs : InFlight(o) = {} => queryPromise[o] = 0)

\* Three calls, two of which waited, have all returned and the coordinator
\* is idle.
C25_Witness ==
  /\ \A k \in 1 .. TurnCalls : call[k].pc = "done"
  /\ messageCount[1] = 3
  /\ queryPromise[1] = 0
  /\ nResets = 0

\* C26: with no reset, a coordinator has a query promise stored (isActive)
\* exactly when one of its streams is started and not yet drained.
C26_FlagIsInFlight ==
  nResets = 0 =>
    \A o \in Objs : (queryPromise[o] # 0) <=> (InFlight(o) # {})

\* C27: when db.run throws on a system/init message with token t, the call
\* goes on streaming and the coordinator holds token t and the messageCount
\* it had.
C27_DbFailureContinues ==
  [][\A k \in Calls, t \in Tokens :
       InitDbThrows(k, t) =>
         LET o == call[k].obj
         IN /\ call'[k].pc = "streaming"
            /\ sdkSessionId'[o] = t
            /\ messageCount'[o] = messageCount[o]]_vars

\* C28: constructing a coordinator for an id that has a row leaves the row
\* as it is and gives the coordinator the row's token and message count.
C28_LoadsRecord ==
  [][\A c \in Conns :
       (Open(c) /\ Fresh(ConnSid(c)) /\ db[ConnSid(c)].present) =>
         LET id == ConnSid(c)
             o == sessions'[id]
         IN /\ db'[id] = db[id]
            /\ sdkSessionId'[o] = db[id].session_id
            /\ messageCount'[o] = db[id].message_count]_vars

\* C29: every open connection (even one whose send works) is a subscriber
\* of the coordinator registered under its id.
C29_OpenIsSubscribed ==
  \A c \in Conns :
    (conn[c] = "open" /\ ~broken[c]) =>
      /\ sessions[ConnSid(c)] # 0
      /\ c \in subscribers[sessions[ConnSid(c)]]

\* A step changes a field of Session p.
Touched(p) ==
  \/ subscribers'[p] # subscribers[p]
  \/ sdkSessionId'[p] # sdkSessionId[p]
  \/ messageCount'[p] # messageCount[p]
  \/ queryPromise'[p] # queryPromise[p]

\* C30: a connection only ever holds events of the session id it connected
\* with; an event of a turn reaches only subscribers of the turn's
\* coordinator; and one step concerns one session id: the Sessions it
\* changes, the connections whose received messages it changes and the
\* registry entries it changes are all of the same id.
C30_SessionsIsolated ==
  /\ [](\A c \in Conns : \A i \in 1 .. Len(inbox[c]) :
          inbox[c][i].sessionId \in {ConnSid(c), "none"})
  /\ [][/\ \A c \in Conns :
             (/\ Len(inbox'[c]) > Len(inbox[c])
              /\ inbox'[c][Len(inbox'[c])].turn # 0) =>
               c \in subscribers[call[inbox'[c][Len(inbox'[c])].turn].obj]
        /\ \A p, q \in Objs : (Touched(p) /\ Touched(q)) => objId'[p] = objId'[q]
        /\ \A c \in Conns, p \in Objs :
             (inbox'[c] # inbox[c] /\ Touched(p)) => objId'[p] = ConnSid(c)
        /\ \A c, d \in Conns :
             (inbox'[c] # inbox[c] /\ inbox'[d] # inbox[d]) => ConnSid(c) = ConnSid(d)
        /\ \A id \in SessionIds, p \in Objs :
             (sessions'[id] # sessions[id] /\ Touched(p)) => objId'[p] = id
        /\ \A id \in SessionIds, c \in Conns :
             (sessions'[id] # sessions[id] /\ inbox'[c] # inbox[c]) => ConnSid(c) = id]_vars

\* Both sessions have had a turn: each connection holds an event of its own
\* session's turn.
C30_Witness ==
  /\ \E i \in 1 .. Len(inbox[1]) : inbox[1][i].turn # 0 /\ inbox[1][i].sessionId = "s1"
  /\ \E i \in 1 .. Len(inbox[2]) : inbox[2][i].turn # 0 /\ inbox[2][i].sessionId = "s2"

====
